---- MODULE Spec2Model ----
(***************************************************************************)
(* A model of the multimodal-mcp repository: the credential manager        *)
(* (google-service-auth.ts and its gcloud variant), the connection         *)
(* provider (weaviate-client.ts), the collection manager (collection.ts)   *)
(* and the ingestion pipeline (upload-images.ts).                          *)
(*                                                                         *)
(* Time is counted in ticks of five minutes, the greatest common divisor   *)
(* of the code's 5, 30 and 60 minute constants; every comparison of the    *)
(* code keeps its strictness.                                              *)
(***************************************************************************)
EXTENDS Integers, Sequences, FiniteSets, Bags, TLC

VARIABLES
  variant,      \* which CredentialManager module is linked: "service" | "gcloud"
  envOk,        \* WEAVIATE_API_KEY and WEAVIATE_URL are set
  now,          \* Date.now(), in ticks
  auth,         \* the GoogleGcloudAuth singleton: credentials, tokenExpiry
  wc,           \* weaviate-client.ts module state: client, lastTokenRefresh
  issued,       \* tokens issued so far by the auth exchange
  connects,     \* handles built so far by connectToWeaviateCloud
  open,         \* ids of the handles built and not closed
  lastBuild,    \* instant of the last successful connectToWeaviateCloud
  refreshed,    \* the token the last successful auth exchange returned
  ret,          \* what the last call observed and returned
  collections,  \* the backend's collections: records [name, properties]
  store,        \* the objects held by the Thuy collection (a bag)
  pc,           \* where the uploadImages run stands
  run,          \* its options and the imageFiles it read
  i,            \* index of the first image of the current batch
  k,            \* images of the current batch already processed
  batchResult,  \* uploadBatch's result
  totalResult,  \* uploadImages' totalResult
  report,       \* the UploadResult the run returned, if it has returned
  log,          \* per processed image: what was issued and how it was counted
  prev,         \* the previous run: its imageFiles and its report
  runs,         \* runs started so far
  search,       \* the last search_photo_albums call: input, what it did, response
  calls,        \* the stdio server's tool invocations: where each one stands
  consoleLog,   \* the stream console.log writes to: "stdout" | "stderr"
  proc          \* the server process: "running" | "exited"

----------------------------------------------------------------------------
(* Bounds of the model *)
MaxClock == 13
MaxTokens == 3
MaxImages == 2
MaxBatchSize == 2
MaxRuns == 2
MaxCalls == 2

(* Program constants, in ticks of five minutes *)
FIVE_MINUTES == 1
TOKEN_EXPIRY_TIME == 6
GCLOUD_TOKEN_LIFETIME == 12
TOKEN_REFRESH_INTERVAL == 12

(* Lifetimes (in ticks) that the auth exchange may report in expiry_date;
   0 stands for a response that carries no expiry_date. *)
ExpiryOffsets == {0, 1, 12}

----------------------------------------------------------------------------
(* Optional values: null/undefined is None, a value v is Some(v).
   A token is a natural number; 0 is the empty string. *)
None == <<>>
Some(v) == <<v>>
Truthy(o) == o /= None /\ o[1] /= 0

(* Results carry: the singleton after the call, whether the call returned (ok)
   or raised, the token returned, whether an auth exchange was performed, and
   the token that exchange issued (fresh). *)
Failed(a, exchanged) ==
  [auth |-> a, ok |-> FALSE, token |-> None, exchanged |-> exchanged,
   fresh |-> None]

(* What one auth exchange may answer when the next fresh token is n. *)
ExchangeOutcomes(n) ==
  IF variant = "service"
  THEN [kind : {"throw"}, token : {0}, creds : {FALSE}, off : {0}]
       \cup [kind : {"ok"}, token : {0, n}, creds : BOOLEAN, off : ExpiryOffsets]
  ELSE [kind : {"throw", "stderr"}, token : {0}, creds : {FALSE}, off : {0}]
       \cup [kind : {"ok"}, token : {0, n}, creds : {FALSE}, off : {0}]

(* google-service-auth.ts refreshToken *)
refreshTokenService(a, t, x) ==
  IF x.kind = "throw" \/ x.token = 0
  THEN Failed(a, TRUE)
  ELSE LET expiryTime == IF x.creds /\ x.off /= 0
                         THEN t + x.off
                         ELSE t + TOKEN_EXPIRY_TIME
       IN [auth |-> [credentials |-> IF x.creds THEN Some(x.token) ELSE None,
                     tokenExpiry |-> expiryTime],
           ok |-> TRUE, token |-> Some(x.token), exchanged |-> TRUE,
           fresh |-> Some(x.token)]

(* the gcloud variant's refreshToken *)
refreshTokenGcloud(a, t, x) ==
  IF x.kind = "throw" \/ x.kind = "stderr"
  THEN Failed(a, TRUE)
  ELSE [auth |-> [credentials |-> Some(x.token),
                  tokenExpiry |-> t + GCLOUD_TOKEN_LIFETIME],
        ok |-> TRUE, token |-> Some(x.token), exchanged |-> TRUE,
        fresh |-> Some(x.token)]

refreshToken(a, t, x) ==
  IF variant = "service" THEN refreshTokenService(a, t, x)
                         ELSE refreshTokenGcloud(a, t, x)

(* Mutant: the cache test is dropped and every call refreshes. *)
getValidToken_AlwaysRefresh(a, t, x) == refreshToken(a, t, x)

getValidToken(a, t, x) ==
  IF Truthy(a.credentials) /\ a.tokenExpiry > t + FIVE_MINUTES
  THEN [auth |-> a, ok |-> TRUE, token |-> a.credentials, exchanged |-> FALSE,
        fresh |-> None]
  ELSE refreshToken(a, t, x)

(* io = [x |-> exchange outcome, c |-> connect outcome, id |-> next handle id] *)
reInstantiateWeaviate(a, t, io) ==
  IF ~envOk
  THEN [auth |-> a, ok |-> FALSE, client |-> None, exchanged |-> FALSE,
        fresh |-> None]
  ELSE LET r == getValidToken(a, t, io.x)
       IN IF r.ok /\ io.c = "ok"
          THEN [auth |-> r.auth, ok |-> TRUE, exchanged |-> r.exchanged,
                fresh |-> r.fresh,
                client |-> Some([id |-> io.id, token |-> r.token[1],
                                 expiry |-> r.auth.tokenExpiry])]
          ELSE [auth |-> r.auth, ok |-> FALSE, client |-> None,
                exchanged |-> r.exchanged, fresh |-> r.fresh]

(* Mutant: the handle is already rebuilt at exactly sixty minutes. *)
getWeaviateClient_AtInterval(w, a, t, io) ==
  IF w.client = None \/ (t - w.lastTokenRefresh) >= TOKEN_REFRESH_INTERVAL
  THEN LET r == reInstantiateWeaviate(a, t, io)
       IN IF r.ok
          THEN [wc |-> [client |-> r.client, lastTokenRefresh |-> t],
                auth |-> r.auth, ok |-> TRUE, client |-> r.client,
                built |-> TRUE, exchanged |-> r.exchanged, fresh |-> r.fresh]
          ELSE [wc |-> w, auth |-> r.auth, ok |-> FALSE, client |-> None,
                built |-> FALSE, exchanged |-> r.exchanged, fresh |-> r.fresh]
  ELSE [wc |-> w, auth |-> a, ok |-> TRUE, client |-> w.client,
        built |-> FALSE, exchanged |-> FALSE, fresh |-> None]

(* Mutant: lastTokenRefresh is stamped before the build is awaited. *)
getWeaviateClient_StampFirst(w, a, t, io) ==
  IF w.client = None \/ (t - w.lastTokenRefresh) > TOKEN_REFRESH_INTERVAL
  THEN LET r == reInstantiateWeaviate(a, t, io)
       IN IF r.ok
          THEN [wc |-> [client |-> r.client, lastTokenRefresh |-> t],
                auth |-> r.auth, ok |-> TRUE, client |-> r.client,
                built |-> TRUE, exchanged |-> r.exchanged, fresh |-> r.fresh]
          ELSE [wc |-> [w EXCEPT !.lastTokenRefresh = t], auth |-> r.auth,
                ok |-> FALSE, client |-> None, built |-> FALSE,
                exchanged |-> r.exchanged, fresh |-> r.fresh]
  ELSE [wc |-> w, auth |-> a, ok |-> TRUE, client |-> w.client,
        built |-> FALSE, exchanged |-> FALSE, fresh |-> None]

getWeaviateClient(w, a, t, io) ==
  IF w.client = None \/ (t - w.lastTokenRefresh) > TOKEN_REFRESH_INTERVAL
  THEN LET r == reInstantiateWeaviate(a, t, io)
       IN IF r.ok
          THEN [wc |-> [client |-> r.client, lastTokenRefresh |-> t],
                auth |-> r.auth, ok |-> TRUE, client |-> r.client,
                built |-> TRUE, exchanged |-> r.exchanged, fresh |-> r.fresh]
          ELSE [wc |-> w, auth |-> r.auth, ok |-> FALSE, client |-> None,
                built |-> FALSE, exchanged |-> r.exchanged, fresh |-> r.fresh]
  ELSE [wc |-> w, auth |-> a, ok |-> TRUE, client |-> w.client,
        built |-> FALSE, exchanged |-> FALSE, fresh |-> None]

(* The inputs one getWeaviateClient call may meet. *)
ClientIO == [x : ExchangeOutcomes(issued + 1), c : {"ok", "throw"},
             id : {connects + 1}]

(* A fresh token is drawn only while the model's supply lasts. *)
CanIssue(r) == r.fresh /= None => issued < MaxTokens
Issued(r) == IF r.fresh /= None THEN issued + 1 ELSE issued
Refreshed(r) == IF r.fresh /= None THEN r.fresh ELSE refreshed

(* The observation of the last call; Idle once time has passed. *)
Ret(op, ok, token, client, exchanged, built) ==
  [op |-> op, ok |-> ok, token |-> token, client |-> client,
   exchanged |-> exchanged, built |-> built]

Idle == Ret("idle", TRUE, None, None, FALSE, FALSE)

----------------------------------------------------------------------------
(* collection.ts *)
COLLECTION_NAME == "Thuy"

(* The properties of the schema that createImagesCollection sends. *)
ImagesProperties == {"title", "image", "url", "extension", "coordinates"}

(* The schema an earlier version of the uploader created (no image blob). *)
LegacyProperties == {"title", "url", "extension", "coordinates"}

Names(cols) == {c.name : c \in cols}

(* The backend's answer to collections.create: a name already taken is
   rejected, and a request may fail for any other reason (outcome "throw"). *)
BackendCreate(cols, name, properties, outcome) ==
  IF outcome = "throw" \/ name \in Names(cols)
  THEN [ok |-> FALSE, collections |-> cols]
  ELSE [ok |-> TRUE,
        collections |-> cols \cup {[name |-> name, properties |-> properties]}]

(* Mutant: the collection is always reported as present. *)
collectionExists_Always(cols, listing, name) == TRUE

(* collectionExists, after its getWeaviateClient call: a listing that throws
   is logged and answered with false. *)
collectionExists(cols, listing, name) ==
  IF listing = "throw" THEN FALSE
  ELSE \E c \in cols : c.name = name

CollResult(g, ok, cols, listed, created) ==
  [wc |-> g.wc, auth |-> g.auth, fresh |-> g.fresh, built |-> g.built,
   id |-> IF g.built THEN g.client[1].id ELSE 0,
   ok |-> ok, collections |-> cols, listed |-> listed, created |-> created]

(* createImagesCollection's try block, entered with the handle g that its
   own getWeaviateClient call returned.  collectionExists asks for the
   handle again (h), lists, and answers; the create call follows when the
   answer is false, and its error is rethrown. *)
createIfAbsent(g, cols, exists, outcome) ==
  IF exists
  THEN CollResult(g, TRUE, cols, TRUE, FALSE)
  ELSE CollResult(g,
         BackendCreate(cols, COLLECTION_NAME, ImagesProperties, outcome).ok,
         BackendCreate(cols, COLLECTION_NAME, ImagesProperties, outcome).collections,
         TRUE, TRUE)

checkThenCreate(g, h, io, cols) ==
  IF ~h.ok THEN CollResult(g, FALSE, cols, FALSE, FALSE)
  ELSE createIfAbsent([g EXCEPT !.wc = h.wc, !.auth = h.auth], cols,
                      collectionExists(cols, io.list, COLLECTION_NAME),
                      io.create)

withClient(g, t, io, cols) ==
  IF ~g.ok THEN CollResult(g, FALSE, cols, FALSE, FALSE)
  ELSE checkThenCreate(g, getWeaviateClient(g.wc, g.auth, t, io), io, cols)

(* io = the inputs of getWeaviateClient, and list and create: the outcomes of
   the backend's listAll and create calls. *)
createImagesCollection(w, a, t, io, cols) ==
  withClient(getWeaviateClient(w, a, t, io), t, io, cols)

CollectionIO == [x : ExchangeOutcomes(issued + 1), c : {"ok", "throw"},
                 id : {connects + 1}, list : {"ok", "throw"},
                 create : {"ok", "throw"}]

----------------------------------------------------------------------------
(* upload-images.ts *)

(* The image files a directory may hold (utils.ts ImageFileInfo); the first
   carries GPS coordinates, the other does not. *)
ImageA == [name |-> "a", path |-> "photos/a.jpg", extension |-> ".jpg",
           base64 |-> "YQ==", coordinates |-> [latitude |-> 1, longitude |-> 2]]
ImageB == [name |-> "b", path |-> "photos/b.png", extension |-> ".png",
           base64 |-> "Yg=="]
Images == {ImageA, ImageB}

Range(f) == {f[j] : j \in DOMAIN f}

(* The directories getImageFiles may read: up to MaxImages distinct files. *)
Directories ==
  {d \in UNION {[1..n -> Images] : n \in 0..MaxImages} :
     Cardinality(Range(d)) = Len(d)}

(* What a backend call may do: return, or throw an Error with a message, or
   throw a value that is no Error. *)
Returns == [thrown |-> FALSE, isError |-> FALSE, message |-> ""]
ErrorMessages == {"Request failed", "Image already exists"}
Throws == [thrown : {TRUE}, isError : {TRUE}, message : ErrorMessages]
          \cup {[thrown |-> TRUE, isError |-> FALSE, message |-> ""]}
CallOutcomes == {Returns} \cup Throws

(* error instanceof Error ? error.message : 'Unknown error' *)
ErrorText(e) == IF e.isError THEN e.message ELSE "Unknown error"

(* Mutant: a record without coordinates is stored with a zero geo-pair. *)
dataObject_ZeroCoordinates(imageFile) ==
  [title |-> imageFile.name,
   url |-> "https://files.hungcq.com/photos/" \o imageFile.name
           \o imageFile.extension,
   extension |-> imageFile.extension,
   image |-> imageFile.base64,
   coordinates |-> IF "coordinates" \in DOMAIN imageFile
                   THEN imageFile.coordinates
                   ELSE [latitude |-> 0, longitude |-> 0]]

(* The object uploadSingleImage prepares. *)
dataObject(imageFile) ==
  LET base == [title |-> imageFile.name,
               url |-> "https://files.hungcq.com/photos/" \o imageFile.name
                       \o imageFile.extension,
               extension |-> imageFile.extension,
               image |-> imageFile.base64]
  IN IF "coordinates" \in DOMAIN imageFile
     THEN [title |-> base.title, url |-> base.url, extension |-> base.extension,
           image |-> base.image,
           coordinates |-> [latitude |-> imageFile.coordinates.latitude,
                            longitude |-> imageFile.coordinates.longitude]]
     ELSE base

(* collection.query.fetchObjects({ where: { path: { equal: path } } }):
   the stored objects whose path property equals the given path. *)
fetchObjects(s, path) ==
  {o \in BagToSet(s) : "path" \in DOMAIN o /\ o.path = path}

(* Objects another writer may have left in the collection; they carry the
   path property the existence check asks for. *)
ForeignObject(imageFile) ==
  [title |-> imageFile.name, path |-> imageFile.path,
   extension |-> imageFile.extension]

Single(s, success, error, checked, found, inserted, raised) ==
  [store |-> s, success |-> success, error |-> error, checked |-> checked,
   found |-> found, inserted |-> inserted, raised |-> raised]

(* io = [check |-> outcome of fetchObjects, insert |-> outcome of data.insert].
   Besides the code's return value the result tells what was issued: the
   existence check (checked), whether it found an object (found), the insert
   (inserted), and the value a call threw (raised). *)
uploadSingleImage(s, imageFile, skipExisting, io) ==
  LET existing == fetchObjects(s, imageFile.path)
  IN IF skipExisting /\ io.check.thrown
     THEN Single(s, FALSE, Some(ErrorText(io.check)), TRUE, FALSE, FALSE,
                 Some(io.check))
     ELSE IF skipExisting /\ Cardinality(existing) > 0
     THEN Single(s, FALSE, Some("Image already exists"), TRUE, TRUE, FALSE,
                 None)
     ELSE IF io.insert.thrown
     THEN Single(s, FALSE, Some(ErrorText(io.insert)), skipExisting, FALSE,
                 TRUE, Some(io.insert))
     ELSE Single(s (+) SetToBag({dataObject(imageFile)}), TRUE, None,
                 skipExisting, FALSE, TRUE, None)

EmptyResult == [success |-> 0, failed |-> 0, skipped |-> 0, errors |-> <<>>]

(* One turn of uploadBatch's loop: how the result of uploadSingleImage is
   counted. *)
uploadBatchCount(result, image, uploadResult) ==
  IF uploadResult.success
  THEN [result EXCEPT !.success = @ + 1]
  ELSE IF uploadResult.error = Some("Image already exists")
  THEN [result EXCEPT !.skipped = @ + 1]
  ELSE [result EXCEPT !.failed = @ + 1,
                      !.errors = Append(@, image.name \o image.extension
                                           \o ": " \o uploadResult.error[1])]

(* Mutant: the batch's result replaces totalResult instead of being added. *)
addBatchResult_Overwrite(total, batch) == batch

(* uploadImages adds a batch's result to totalResult. *)
addBatchResult(total, batch) ==
  [success |-> total.success + batch.success,
   failed |-> total.failed + batch.failed,
   skipped |-> total.skipped + batch.skipped,
   errors |-> total.errors \o batch.errors]

Min(a, b) == IF a < b THEN a ELSE b

(* Mutant: every batch is sliced from the start of imageFiles. *)
batchOf_FromStart(imageFiles, from, batchSize) ==
  SubSeq(imageFiles, 1, Min(batchSize, Len(imageFiles)))

(* imageFiles.slice(i, i + batchSize) *)
batchOf(imageFiles, from, batchSize) ==
  SubSeq(imageFiles, from + 1, Min(from + batchSize, Len(imageFiles)))

(* How runs are started: by a caller of uploadImages, who passes any
   options, or by the upload command (main of upload-images.ts), which
   reads --batch-size and --skip-existing from its arguments. *)
DEFAULT_BATCH_SIZE == 10

(* parseInt(args[batchSizeIndex + 1], 10) on the arguments the model passes *)
ParseInt(str) ==
  CASE str = "1" -> 1
    [] str = "2" -> 2

(* The options main passes to uploadImages; batchArg is the value after
   --batch-size, if any, and flag tells whether --skip-existing was given. *)
mainOptions(batchArg, flag) ==
  [batchSize |-> IF batchArg /= None THEN ParseInt(batchArg[1])
                 ELSE DEFAULT_BATCH_SIZE,
   skipExisting |-> TRUE,
   flag |-> flag]

StartOptions(entry) ==
  IF entry = "upload"
  THEN {mainOptions(batchArg, flag) :
          batchArg \in {None, Some("1")}, flag \in BOOLEAN}
  ELSE [batchSize : 1..MaxBatchSize, skipExisting : BOOLEAN, flag : {FALSE}]

IdleRun(entry) ==
  [imageFiles |-> <<>>, batchSize |-> 1, skipExisting |-> FALSE,
   entry |-> entry, flag |-> FALSE]

(* The stdio server: its tool invocations, of which up to MaxCalls overlap.
   An invocation is idle, or suspended at one of its awaits: the auth
   exchange, connectToWeaviateCloud, the geocoder request or the nearText
   query.  It keeps the instant getWeaviateClient read (now), the handler's
   originalLog, the token reInstantiateWeaviate holds and whether the input
   names a location. *)
Calls == 1..MaxCalls
IdleCall == [pc |-> "idle", now |-> 0, originalLog |-> "stdout",
             token |-> None, locate |-> FALSE]
serverVars == <<calls, consoleLog, proc>>
NoServer ==
  /\ calls = [c \in Calls |-> IdleCall]
  /\ consoleLog = "stdout"
  /\ proc = "running"

NoRunOf(entry) ==
  /\ pc = "idle"
  /\ run = IdleRun(entry)
  /\ i = 0
  /\ k = 0
  /\ batchResult = EmptyResult
  /\ totalResult = EmptyResult
  /\ report = None
  /\ log = <<>>
  /\ prev = None
  /\ runs = 0
  /\ search = None
  /\ NoServer

NoRun ==
  /\ pc = "idle"
  /\ run = IdleRun("uploadImages")
  /\ i = 0
  /\ k = 0
  /\ batchResult = EmptyResult
  /\ totalResult = EmptyResult
  /\ report = None
  /\ log = <<>>
  /\ prev = None
  /\ runs = 0
  /\ search = None
  /\ NoServer

----------------------------------------------------------------------------
(* search-images.ts and the search_photo_albums handler of collection.ts.
   Coordinates are whole degrees, a certainty is given in thousandths, and
   the pictographs of the handler's texts are left out. *)
DEFAULT_SEARCH_RADIUS_KM == 50
METRES_PER_KM == 1000

Error(message) == [isError |-> TRUE, message |-> message]
NonError == [isError |-> FALSE, message |-> ""]

(* parseFloat on the decimal strings Nominatim may send *)
ParseFloat(str) ==
  CASE str = "48" -> 48
    [] str = "2" -> 2
    [] str = "0" -> 0

(* What the Nominatim request may do: fetch throws, the response is not ok,
   the result list is empty, or its first entry carries lat and lon. *)
GeocodeOutcomes ==
  [kind : {"throw", "status", "empty"}, lat : {"0"}, lon : {"0"}]
  \cup [kind : {"match"}, lat : {"48", "0"}, lon : {"2"}]

(* geocodeLocation: the pair, or null; and what it passes to console.warn *)
geocodeLocation(location, o) ==
  IF o.kind = "match"
  THEN [coords |-> Some([lat |-> ParseFloat(o.lat), lon |-> ParseFloat(o.lon)]),
        warnings |-> <<>>]
  ELSE IF o.kind = "empty"
  THEN [coords |-> None,
        warnings |-> <<"No geocoding results found for location: " \o location>>]
  ELSE [coords |-> None, warnings |-> <<>>]

(* The objects a nearText response may hold, in the backend's order. *)
ObjectA == [properties |-> [title |-> "a",
                            url |-> "https://files.hungcq.com/photos/a.jpg",
                            extension |-> ".jpg",
                            coordinates |-> Some([latitude |-> 1, longitude |-> 2])],
            certainty |-> Some(875)]
ObjectB == [properties |-> [title |-> "b",
                            url |-> "https://files.hungcq.com/photos/b.png",
                            extension |-> ".png",
                            coordinates |-> None],
            certainty |-> None]
QueryResponses ==
  {<<>>, <<ObjectA>>, <<ObjectB>>, <<ObjectA, ObjectB>>, <<ObjectB, ObjectA>>}

(* What collection.query.nearText may do *)
QueryOutcomes ==
  [kind : {"throw"}, error : {Error("query failed"), NonError},
   objects : {<<>>}]
  \cup [kind : {"ok"}, error : {NonError}, objects : QueryResponses]

(* The tool's input; location and radiusKm are optional. *)
ToolInputs ==
  [query : {"sunset"}, limit : {5},
   location : {None, Some(""), Some("Paris")},
   radiusKm : {None, Some(10)}]

(* The error getImagesCollection's getWeaviateClient call raised. *)
ClientError(g, x) ==
  IF ~envOk
  THEN Error("Missing required environment variables: WEAVIATE_API_KEY, WEAVIATE_URL")
  ELSE IF g.exchanged /\ g.fresh = None
  THEN IF x.kind = "ok"
       THEN Error("Failed to get access token from service account")
       ELSE Error("invalid_grant")
  ELSE Error("connect failed")

SearchOutcome(g, thrown, results, geocoded, warnings, sent) ==
  [wc |-> g.wc, auth |-> g.auth, fresh |-> g.fresh, built |-> g.built,
   id |-> IF g.built THEN g.client[1].id ELSE 0,
   thrown |-> thrown, results |-> results, geocoded |-> geocoded,
   warnings |-> warnings, sent |-> sent]

(* response.objects.map(...) *)
toSearchResult(obj) ==
  [title |-> obj.properties.title, url |-> obj.properties.url,
   extension |-> obj.properties.extension,
   coordinates |-> obj.properties.coordinates, score |-> obj.certainty]

(* Mutant: the filter's distance is sent in kilometres. *)
nearTextOptions_Kilometres(limit, locationCoords, radiusKm) ==
  [limit |-> limit,
   returnProperties |-> {"title", "url", "extension", "coordinates"},
   filters |-> IF locationCoords /= None
               THEN Some([latitude |-> locationCoords[1].lat,
                          longitude |-> locationCoords[1].lon,
                          distance |-> radiusKm])
               ELSE None]

(* The options of the nearText call. *)
nearTextOptions(limit, locationCoords, radiusKm) ==
  [limit |-> limit,
   returnProperties |-> {"title", "url", "extension", "coordinates"},
   filters |-> IF locationCoords /= None
               THEN Some([latitude |-> locationCoords[1].lat,
                          longitude |-> locationCoords[1].lon,
                          distance |-> radiusKm * METRES_PER_KM])
               ELSE None]

(* searchImages from the query on, with what geocoding gave. *)
queryImages(g, input, radiusKm, geocoded, geo, q) ==
  IF q.kind = "throw"
  THEN SearchOutcome(g, Some(q.error), <<>>, geocoded, geo.warnings,
                     Some([query |-> input.query,
                           options |-> nearTextOptions(input.limit, geo.coords,
                                                       radiusKm)]))
  ELSE SearchOutcome(g, None,
                     [j \in DOMAIN q.objects |-> toSearchResult(q.objects[j])],
                     geocoded, geo.warnings,
                     Some([query |-> input.query,
                           options |-> nearTextOptions(input.limit, geo.coords,
                                                       radiusKm)]))

(* Mutant: a location that cannot be geocoded fails the search. *)
locateImages_Strict(g, input, io) ==
  IF ~g.ok
  THEN SearchOutcome(g, Some(ClientError(g, io.x)), <<>>, FALSE, <<>>, None)
  ELSE IF input.location /= None /\ input.location[1] /= ""
  THEN IF geocodeLocation(input.location[1], io.geo).coords = None
       THEN SearchOutcome(g, Some(Error("Could not geocode location")), <<>>,
                          TRUE, <<>>, None)
       ELSE queryImages(g, input,
              IF input.radiusKm = None THEN DEFAULT_SEARCH_RADIUS_KM
                                       ELSE input.radiusKm[1],
              TRUE, geocodeLocation(input.location[1], io.geo), io.q)
  ELSE queryImages(g, input,
         IF input.radiusKm = None THEN DEFAULT_SEARCH_RADIUS_KM
                                  ELSE input.radiusKm[1],
         FALSE, [coords |-> None, warnings |-> <<>>], io.q)

(* searchImages after getImagesCollection: the geocoding step. *)
locateImages(g, input, io) ==
  IF ~g.ok
  THEN SearchOutcome(g, Some(ClientError(g, io.x)), <<>>, FALSE, <<>>, None)
  ELSE IF input.location /= None /\ input.location[1] /= ""
  THEN queryImages(g, input,
         IF input.radiusKm = None THEN DEFAULT_SEARCH_RADIUS_KM
                                  ELSE input.radiusKm[1],
         TRUE,
         [coords |-> geocodeLocation(input.location[1], io.geo).coords,
          warnings |->
            geocodeLocation(input.location[1], io.geo).warnings
            \o (IF geocodeLocation(input.location[1], io.geo).coords = None
                THEN <<"Could not geocode location \"" \o input.location[1]
                       \o "\", proceeding without location filter">>
                ELSE <<>>)],
         io.q)
  ELSE queryImages(g, input,
         IF input.radiusKm = None THEN DEFAULT_SEARCH_RADIUS_KM
                                  ELSE input.radiusKm[1],
         FALSE, [coords |-> None, warnings |-> <<>>], io.q)

(* io = the inputs of getWeaviateClient, geo: the outcome of the Nominatim
   request, q: the outcome of nearText. *)
searchImages(w, a, t, input, io) ==
  locateImages(getWeaviateClient(w, a, t, io), input, io)

(* n.toFixed(6) for a whole number, (score * 100).toFixed(1) for thousandths *)
ToFixed6(n) == ToString(n) \o ".000000"
Percent(p) == ToString(p \div 10) \o "." \o ToString(p % 10)

RECURSIVE Join(_, _)
Join(strs, sep) ==
  IF Len(strs) = 0 THEN ""
  ELSE IF Len(strs) = 1 THEN strs[1]
  ELSE strs[1] \o sep \o Join(Tail(strs), sep)

(* One entry of the handler's result text. *)
formatResult(result, index) ==
  ToString(index) \o ". **" \o result.title \o result.extension \o "**\n"
  \o "   URL: " \o result.url \o "\n   "
  \o (IF result.coordinates /= None
      THEN "Location: " \o ToFixed6(result.coordinates[1].latitude) \o ", "
           \o ToFixed6(result.coordinates[1].longitude)
      ELSE "Location: No GPS data available")
  \o "\n   "
  \o (IF result.score /= None
      THEN "Similarity: " \o Percent(result.score[1]) \o "%"
      ELSE "")

NoPhotosText(query) ==
  "No photos found matching \"" \o query
  \o "\". Try a different search term or check if photos have been uploaded to the collection."

ErrorResponseText(e) ==
  "Error searching photo albums: "
  \o (IF e.isError THEN e.message ELSE "Unknown error")
  \o ". Please check your Weaviate connection and try again."

Response(text, isError, thrown) ==
  [text |-> text, isError |-> isError, thrown |-> thrown]

(* Mutant: the handler lets the failure of searchImages escape. *)
handleSearchPhotoAlbums_Rethrow(input, s) ==
  IF s.thrown /= None
  THEN Response("", FALSE, TRUE)
  ELSE Response(NoPhotosText(input.query), FALSE, FALSE)

(* Mutant: the entries are listed in reverse order. *)
handleSearchPhotoAlbums_Reversed(input, s) ==
  IF s.thrown /= None
  THEN Response(ErrorResponseText(s.thrown[1]), TRUE, FALSE)
  ELSE IF Len(s.results) = 0
  THEN Response(NoPhotosText(input.query), FALSE, FALSE)
  ELSE Response("Found " \o ToString(Len(s.results)) \o " photo(s) matching \""
                \o input.query \o "\":\n\n"
                \o Join([j \in DOMAIN s.results |->
                           formatResult(s.results[Len(s.results) + 1 - j], j)],
                        "\n\n"),
                FALSE, FALSE)

(* handleSearchPhotoAlbums, given the outcome s of its searchImages call. *)
handleSearchPhotoAlbums(input, s) ==
  IF s.thrown /= None
  THEN Response(ErrorResponseText(s.thrown[1]), TRUE, FALSE)
  ELSE IF Len(s.results) = 0
  THEN Response(NoPhotosText(input.query), FALSE, FALSE)
  ELSE Response("Found " \o ToString(Len(s.results)) \o " photo(s) matching \""
                \o input.query \o "\":\n\n"
                \o Join([j \in DOMAIN s.results |->
                           formatResult(s.results[j], j)], "\n\n"),
                FALSE, FALSE)

SearchIO == [x : {o \in ExchangeOutcomes(issued + 1) : o.off = 0},
             c : {"ok", "throw"}, id : {connects + 1},
             geo : GeocodeOutcomes, q : QueryOutcomes]

backendVars == <<collections, store>>
uploadVars == <<pc, run, i, k, batchResult, totalResult, report, log, prev, runs>>

(* The module state of a process that has just started. *)
FreshAuth == [credentials |-> None, tokenExpiry |-> 0]
FreshWc == [client |-> None, lastTokenRefresh |-> 0]

----------------------------------------------------------------------------
AuthInit ==
  /\ variant \in {"service", "gcloud"}
  /\ envOk \in BOOLEAN
  /\ now = 0
  /\ auth = FreshAuth
  /\ wc = FreshWc
  /\ issued = 0
  /\ connects = 0
  /\ open = {}
  /\ lastBuild = 0
  /\ refreshed = None
  /\ ret = Idle
  /\ collections = {}
  /\ store = EmptyBag
  /\ NoRun

Tick ==
  /\ now < MaxClock
  /\ now' = now + 1
  /\ ret' = Idle
  /\ UNCHANGED <<serverVars, search, variant, envOk, auth, wc, issued, connects, open, lastBuild, refreshed>>
  /\ UNCHANGED <<backendVars, uploadVars>>

CallRefreshToken ==
  \E x \in ExchangeOutcomes(issued + 1) :
    \E r \in {refreshToken(auth, now, x)} :
       /\ CanIssue(r)
       /\ auth' = r.auth
       /\ issued' = Issued(r)
       /\ refreshed' = Refreshed(r)
       /\ ret' = Ret("refreshToken", r.ok, r.token, None, r.exchanged, FALSE)
       /\ UNCHANGED <<serverVars, search, variant, envOk, now, wc, connects, open, lastBuild>>
       /\ UNCHANGED <<backendVars, uploadVars>>

CallGetValidToken ==
  \E x \in ExchangeOutcomes(issued + 1) :
    \E r \in {getValidToken(auth, now, x)} :
       /\ CanIssue(r)
       /\ auth' = r.auth
       /\ issued' = Issued(r)
       /\ refreshed' = Refreshed(r)
       /\ ret' = Ret("getValidToken", r.ok, r.token, None, r.exchanged, FALSE)
       /\ UNCHANGED <<serverVars, search, variant, envOk, now, wc, connects, open, lastBuild>>
       /\ UNCHANGED <<backendVars, uploadVars>>

CallGetWeaviateClient ==
  \E io \in ClientIO :
    \E r \in {getWeaviateClient(wc, auth, now, io)} :
       /\ CanIssue(r)
       /\ auth' = r.auth
       /\ wc' = r.wc
       /\ issued' = Issued(r)
       /\ refreshed' = Refreshed(r)
       /\ connects' = IF r.built THEN connects + 1 ELSE connects
       /\ open' = IF r.built THEN open \cup {io.id} ELSE open
       /\ lastBuild' = IF r.built THEN now ELSE lastBuild
       /\ ret' = Ret("getWeaviateClient", r.ok, None, r.client, r.exchanged, r.built)
       /\ UNCHANGED <<serverVars, search, variant, envOk, now>>
       /\ UNCHANGED <<backendVars, uploadVars>>

(* Mutant: the cached handle is left open. *)
closeWeaviateClient_LeftOpen(w, o) == o

closeWeaviateClient(w, o) ==
  IF w.client /= None THEN o \ {w.client[1].id} ELSE o

CallCloseWeaviateClient ==
  /\ open' = closeWeaviateClient(wc, open)
  /\ ret' = Ret("closeWeaviateClient", TRUE, None, None, FALSE, FALSE)
  /\ UNCHANGED <<serverVars, search, variant, envOk, now, auth, wc, issued, connects, lastBuild, refreshed>>
  /\ UNCHANGED <<backendVars, uploadVars>>

vars == <<variant, envOk, now, auth, wc, issued, connects, open, lastBuild,
          refreshed, ret, collections, store, pc, run, i, k, batchResult,
          totalResult, report, log, prev, runs, search, calls, consoleLog,
          proc>>

(* The credential manager on its own: its two public methods and the clock. *)
TokenNext ==
  \/ Tick
  \/ CallRefreshToken
  \/ CallGetValidToken

TokenInit == AuthInit /\ envOk

SpecToken == TokenInit /\ [][TokenNext]_vars

(* The connection provider, which reaches the credential manager only
   through reInstantiateWeaviate. *)
ClientNext ==
  \/ Tick
  \/ CallGetWeaviateClient
  \/ CallCloseWeaviateClient

SpecClient == AuthInit /\ [][ClientNext]_vars

(* The connection provider and the credential manager's refreshToken, called
   in any order; the exchange of a direct refreshToken call reports no
   expiry_date. *)
ProviderRefreshToken ==
  \E x \in {o \in ExchangeOutcomes(issued + 1) : o.off = 0} :
    \E r \in {refreshToken(auth, now, x)} :
       /\ CanIssue(r)
       /\ auth' = r.auth
       /\ issued' = Issued(r)
       /\ refreshed' = Refreshed(r)
       /\ ret' = Ret("refreshToken", r.ok, r.token, None, r.exchanged, FALSE)
       /\ UNCHANGED <<serverVars, search, variant, envOk, now, wc, connects,
                      open, lastBuild>>
       /\ UNCHANGED <<backendVars, uploadVars>>

ProviderNext ==
  \/ Tick
  \/ ProviderRefreshToken
  \/ CallGetWeaviateClient
  \/ CallCloseWeaviateClient

SpecProvider == AuthInit /\ [][ProviderNext]_vars

----------------------------------------------------------------------------
(* The collections the backend may hold before the program first runs. *)
InitialCollections ==
  {thuy \cup other :
     thuy \in {{}, {[name |-> COLLECTION_NAME, properties |-> ImagesProperties]},
               {[name |-> COLLECTION_NAME, properties |-> LegacyProperties]}},
     other \in {{}, {[name |-> "Other", properties |-> {"text"}]}}}

CollectionInit ==
  /\ variant \in {"service", "gcloud"}
  /\ envOk \in BOOLEAN
  /\ now = 0
  /\ auth = FreshAuth
  /\ wc = FreshWc
  /\ issued = 0
  /\ connects = 0
  /\ open = {}
  /\ lastBuild = 0
  /\ refreshed = None
  /\ ret = Idle
  /\ collections \in InitialCollections
  /\ store = EmptyBag
  /\ NoRun

(* createImagesCollection called on its own (the create-collection command). *)
CallCreateImagesCollection ==
  \E io \in CollectionIO :
    \E r \in {createImagesCollection(wc, auth, now, io, collections)} :
       /\ CanIssue(r)
       /\ auth' = r.auth
       /\ wc' = r.wc
       /\ issued' = Issued(r)
       /\ refreshed' = Refreshed(r)
       /\ connects' = IF r.built THEN connects + 1 ELSE connects
       /\ open' = IF r.built THEN open \cup {r.id} ELSE open
       /\ lastBuild' = IF r.built THEN now ELSE lastBuild
       /\ collections' = r.collections
       /\ ret' = [op |-> "createImagesCollection", ok |-> r.ok,
                  clientOk |-> r.wc.client /= None,
                  existed |-> COLLECTION_NAME \in Names(collections),
                  listed |-> r.listed, created |-> r.created]
       /\ UNCHANGED <<serverVars, search, variant, envOk, now, store, uploadVars>>

CollectionNext == CallCreateImagesCollection

SpecCollection == CollectionInit /\ [][CollectionNext]_vars

----------------------------------------------------------------------------
(* The objects the Thuy collection may hold before the first run. *)
InitialStores == {EmptyBag, SetToBag({ForeignObject(ImageA)})}

(* The inputs uploadImages' start may meet: those of createImagesCollection,
   with an auth exchange that reports no expiry_date (no time passes within
   a run, so the reported lifetime plays no part in it). *)
UploadIO == {io \in CollectionIO : io.x.off = 0}

UploadInit ==
  /\ variant = "service"
  /\ envOk \in BOOLEAN
  /\ now = 0
  /\ auth = FreshAuth
  /\ wc = FreshWc
  /\ issued = 0
  /\ connects = 0
  /\ open = {}
  /\ lastBuild = 0
  /\ refreshed = None
  /\ ret = Idle
  /\ collections \in {c \in InitialCollections : "Other" \notin Names(c)}
  /\ store \in InitialStores
  /\ NoRun

(* uploadImages up to its first batch: a new process reads the directory,
   returns at once when it holds no image, and otherwise ensures the
   collection and gets it. *)
UploadStart ==
  /\ pc = "idle"
  /\ runs < MaxRuns
  /\ \E d \in Directories, options \in StartOptions(run.entry),
        io \in UploadIO :
     \E r \in {createImagesCollection(wc, auth, now, io, collections)} :
     \E g \in {getWeaviateClient(r.wc, r.auth, now, io)} :
          /\ run' = [imageFiles |-> d, batchSize |-> options.batchSize,
                     skipExisting |-> options.skipExisting,
                     entry |-> run.entry, flag |-> options.flag]
          /\ runs' = runs + 1
          /\ log' = <<>>
          /\ i' = 0
          /\ k' = 0
          /\ batchResult' = EmptyResult
          /\ totalResult' = EmptyResult
          /\ IF Len(d) = 0
             THEN /\ pc' = "done"
                  /\ report' = Some([EmptyResult EXCEPT
                                       !.errors = <<"No image files found">>])
                  /\ UNCHANGED <<auth, wc, issued, refreshed, connects, open,
                                 lastBuild, collections>>
             ELSE /\ CanIssue(r)
                  /\ report' = None
                  /\ pc' = IF r.ok /\ g.ok THEN "loop" ELSE "raised"
                  /\ auth' = IF r.ok THEN g.auth ELSE r.auth
                  /\ wc' = IF r.ok THEN g.wc ELSE r.wc
                  /\ issued' = Issued(r)
                  /\ refreshed' = Refreshed(r)
                  /\ connects' = IF r.built THEN connects + 1 ELSE connects
                  /\ open' = IF r.built THEN open \cup {r.id} ELSE open
                  /\ lastBuild' = IF r.built THEN now ELSE lastBuild
                  /\ collections' = r.collections
  /\ UNCHANGED <<serverVars, search, variant, envOk, now, ret, store, prev>>

(* for (let i = 0; i < imageFiles.length; i += batchSize): a batch begins. *)
BatchStart ==
  /\ pc = "loop"
  /\ i < Len(run.imageFiles)
  /\ pc' = "batch"
  /\ k' = 0
  /\ batchResult' = EmptyResult
  /\ UNCHANGED <<serverVars, search, variant, envOk, now, auth, wc, issued, connects, open,
                 lastBuild, refreshed, ret, backendVars, run, i, totalResult,
                 report, log, prev, runs>>

Counted(before, after) ==
  [success |-> after.success - before.success,
   failed |-> after.failed - before.failed,
   skipped |-> after.skipped - before.skipped]

(* One turn of uploadBatch's loop: uploadSingleImage, then the count. *)
UploadOne ==
  /\ pc = "batch"
  /\ LET batch == batchOf(run.imageFiles, i, run.batchSize)
     IN /\ k < Len(batch)
        /\ \E io \in [check : CallOutcomes, insert : CallOutcomes] :
           \E image \in {batch[k + 1]} :
           \E u \in {uploadSingleImage(store, image, run.skipExisting, io)} :
           \E counted \in {uploadBatchCount(batchResult, image, u)} :
                /\ store' = u.store
                /\ batchResult' = counted
                /\ k' = k + 1
                /\ log' = Append(log,
                     [image |-> image, checked |-> u.checked, found |-> u.found,
                      inserted |-> u.inserted, raised |-> u.raised,
                      counted |-> Counted(batchResult, counted),
                      appended |-> SubSeq(counted.errors,
                                          Len(batchResult.errors) + 1,
                                          Len(counted.errors))])
  /\ UNCHANGED <<serverVars, search, variant, envOk, now, auth, wc, issued, connects, open,
                 lastBuild, refreshed, ret, collections, pc, run, i,
                 totalResult, report, prev, runs>>

(* uploadBatch returns and uploadImages adds its result to totalResult. *)
BatchEnd ==
  /\ pc = "batch"
  /\ k = Len(batchOf(run.imageFiles, i, run.batchSize))
  /\ totalResult' = addBatchResult(totalResult, batchResult)
  /\ i' = i + run.batchSize
  /\ pc' = "loop"
  /\ UNCHANGED <<serverVars, search, variant, envOk, now, auth, wc, issued, connects, open,
                 lastBuild, refreshed, ret, backendVars, run, k, batchResult,
                 report, log, prev, runs>>

(* Mutant: the loop is left only when i lands exactly on the length. *)
loopDone_Exact(index, imageFiles) == index = Len(imageFiles)

(* The for loop's condition i < imageFiles.length no longer holds. *)
loopDone(index, imageFiles) == ~(index < Len(imageFiles))

(* return totalResult *)
UploadReturn ==
  /\ pc = "loop"
  /\ loopDone(i, run.imageFiles)
  /\ report' = Some(totalResult)
  /\ pc' = "done"
  /\ UNCHANGED <<serverVars, search, variant, envOk, now, auth, wc, issued, connects, open,
                 lastBuild, refreshed, ret, backendVars, run, i, k,
                 batchResult, totalResult, log, prev, runs>>

(* main's finally: the handle is closed and the process ends, and with it
   the module state and the locals of the run.  What the run read and
   reported is kept in prev. *)
MainExit ==
  /\ pc \in {"done", "raised"}
  /\ open' = closeWeaviateClient(wc, open)
  /\ prev' = Some([imageFiles |-> run.imageFiles, report |-> report])
  /\ auth' = FreshAuth
  /\ wc' = FreshWc
  /\ pc' = "idle"
  /\ run' = IdleRun(run.entry)
  /\ i' = 0
  /\ k' = 0
  /\ batchResult' = EmptyResult
  /\ totalResult' = EmptyResult
  /\ report' = None
  /\ log' = <<>>
  /\ UNCHANGED <<serverVars, search, variant, envOk, now, issued, connects, lastBuild, refreshed,
                 ret, backendVars, runs>>

UploadNext ==
  \/ UploadStart
  \/ BatchStart
  \/ UploadOne
  \/ BatchEnd
  \/ UploadReturn
  \/ MainExit

SpecUpload == UploadInit /\ [][UploadNext]_vars

(* Runs started by the upload command. *)
CliInit ==
  /\ variant = "service"
  /\ envOk \in BOOLEAN
  /\ now = 0
  /\ auth = FreshAuth
  /\ wc = FreshWc
  /\ issued = 0
  /\ connects = 0
  /\ open = {}
  /\ lastBuild = 0
  /\ refreshed = None
  /\ ret = Idle
  /\ collections \in {c \in InitialCollections : "Other" \notin Names(c)}
  /\ store \in InitialStores
  /\ NoRunOf("upload")

SpecCli == CliInit /\ [][UploadNext]_vars

(* The run makes progress: every backend call of uploadSingleImage eventually
   returns or raises, and the loops' own steps are taken. *)
SpecUploadLive ==
  /\ UploadInit
  /\ [][UploadNext]_vars
  /\ WF_vars(BatchStart)
  /\ WF_vars(UploadOne)
  /\ WF_vars(BatchEnd)
  /\ WF_vars(UploadReturn)

----------------------------------------------------------------------------
(* The MCP server: the stored collection exists, and tool calls arrive. *)
(* A run that takes time: the clock advances while the first run over an
   empty Thuy collection is in its loop, up to the first instant past the lifetime
   the code assumes for a token. *)
LongRunInit ==
  /\ UploadInit
  /\ envOk
  /\ store = EmptyBag
  /\ collections = {[name |-> COLLECTION_NAME, properties |-> ImagesProperties]}

LongRunTick ==
  /\ pc \in {"loop", "batch"}
  /\ runs = 1
  /\ now < TOKEN_EXPIRY_TIME + FIVE_MINUTES
  /\ Tick

LongRunNext ==
  \/ UploadNext
  \/ LongRunTick

SpecLongRun == LongRunInit /\ [][LongRunNext]_vars

SearchInit ==
  /\ variant = "service"
  /\ envOk \in BOOLEAN
  /\ now = 0
  /\ auth = FreshAuth
  /\ wc = FreshWc
  /\ issued = 0
  /\ connects = 0
  /\ open = {}
  /\ lastBuild = 0
  /\ refreshed = None
  /\ ret = Idle
  /\ collections = {[name |-> COLLECTION_NAME, properties |-> ImagesProperties]}
  /\ store = EmptyBag
  /\ NoRun

(* One search_photo_albums call, from the tool input to the response. *)
CallHandleSearchPhotoAlbums ==
  /\ search = None
  /\ \E input \in ToolInputs, io \in SearchIO :
    \E s \in {searchImages(wc, auth, now, input, io)} :
    \E response \in {handleSearchPhotoAlbums(input, s)} :
       /\ CanIssue(s)
       /\ auth' = s.auth
       /\ wc' = s.wc
       /\ issued' = Issued(s)
       /\ refreshed' = Refreshed(s)
       /\ connects' = IF s.built THEN connects + 1 ELSE connects
       /\ open' = IF s.built THEN open \cup {s.id} ELSE open
       /\ lastBuild' = IF s.built THEN now ELSE lastBuild
       /\ search' = Some([input |-> input, geo |-> io.geo, q |-> io.q,
                          clientOk |-> s.wc.client /= None,
                          geocoded |-> s.geocoded, warnings |-> s.warnings,
                          sent |-> s.sent, failure |-> s.thrown,
                          results |-> s.results, response |-> response])
       /\ UNCHANGED <<serverVars, variant, envOk, now, ret, backendVars, uploadVars>>

(* The server hands the response to the transport and awaits the next
   call. *)
SendResponse ==
  /\ search /= None
  /\ search' = None
  /\ UNCHANGED <<serverVars, variant, envOk, now, auth, wc, issued, connects, open,
                 lastBuild, refreshed, ret, backendVars, uploadVars>>

SearchNext ==
  \/ CallHandleSearchPhotoAlbums
  \/ SendResponse

SpecSearch == SearchInit /\ [][SearchNext]_vars

----------------------------------------------------------------------------
(* The stdio server with overlapping invocations.  The process runs one
   callback at a time and an invocation gives way only at an await of a
   network operation, so one step runs an invocation from one such await to
   the next. *)
ServerInit ==
  /\ variant = "service"
  /\ envOk \in BOOLEAN
  /\ now = 0
  /\ auth = FreshAuth
  /\ wc = FreshWc
  /\ issued = 0
  /\ connects = 0
  /\ open = {}
  /\ lastBuild = 0
  /\ refreshed = None
  /\ ret = Idle
  /\ collections = {[name |-> COLLECTION_NAME, properties |-> ImagesProperties]}
  /\ store = EmptyBag
  /\ NoRun

(* getWeaviateClient's test, and getValidToken's *)
handleStale(w, t) ==
  w.client = None \/ (t - w.lastTokenRefresh) > TOKEN_REFRESH_INTERVAL
tokenCached(a, t) ==
  Truthy(a.credentials) /\ a.tokenExpiry > t + FIVE_MINUTES

(* searchImages once it holds the collection: the geocoder request when the
   input names a location, the nearText query otherwise. *)
afterHandle(locate) == IF locate THEN "geocode" ELSE "query"

Suspended(c, at, token) == [calls EXCEPT ![c].pc = at, ![c].token = token]

(* The handler's finally: console.log = originalLog, and the invocation is
   over (with a response, or with the isError response of the catch). *)
Finish(c) ==
  /\ consoleLog' = calls[c].originalLog
  /\ calls' = [calls EXCEPT ![c] = IdleCall]

(* The registered handler is called: it saves console.log, redirects it, and
   handleSearchPhotoAlbums runs through searchImages and getImagesCollection
   into getWeaviateClient, up to the first await of a network operation. *)
Invoke(c) ==
  /\ proc = "running"
  /\ calls[c].pc = "idle"
  /\ \E locate \in BOOLEAN :
       IF ~handleStale(wc, now)
       THEN /\ consoleLog' = "stderr"
            /\ calls' = [calls EXCEPT ![c] =
                 [pc |-> afterHandle(locate), now |-> now,
                  originalLog |-> consoleLog, token |-> None,
                  locate |-> locate]]
       ELSE IF ~envOk
       THEN UNCHANGED <<calls, consoleLog>>
       ELSE /\ consoleLog' = "stderr"
            /\ calls' = [calls EXCEPT ![c] =
                 [pc |-> IF tokenCached(auth, now) THEN "connect"
                                                   ELSE "exchange",
                  now |-> now, originalLog |-> consoleLog,
                  token |-> IF tokenCached(auth, now)
                            THEN Some([token |-> auth.credentials[1],
                                       expiry |-> auth.tokenExpiry])
                            ELSE None,
                  locate |-> locate]]
  /\ UNCHANGED <<proc, search, variant, envOk, now, auth, wc, issued, connects,
                 open, lastBuild, refreshed, ret, backendVars, uploadVars>>

(* refreshToken's auth exchange answers. *)
ExchangeDone(c) ==
  /\ proc = "running"
  /\ calls[c].pc = "exchange"
  /\ \E x \in {o \in ExchangeOutcomes(issued + 1) : o.off = 0} :
     \E r \in {refreshToken(auth, now, x)} :
       /\ CanIssue(r)
       /\ auth' = r.auth
       /\ issued' = Issued(r)
       /\ refreshed' = Refreshed(r)
       /\ IF r.ok
          THEN /\ calls' = Suspended(c, "connect",
                              Some([token |-> r.token[1],
                                    expiry |-> r.auth.tokenExpiry]))
               /\ UNCHANGED consoleLog
          ELSE Finish(c)
  /\ UNCHANGED <<proc, search, variant, envOk, now, wc, connects, open,
                 lastBuild, ret, backendVars, uploadVars>>

(* connectToWeaviateCloud answers: getWeaviateClient assigns client and
   lastTokenRefresh and returns, and searchImages goes on to its next
   request. *)
ConnectDone(c) ==
  /\ proc = "running"
  /\ calls[c].pc = "connect"
  /\ \E outcome \in {"ok", "throw"} :
       IF outcome = "ok"
       THEN /\ wc' = [client |-> Some([id |-> connects + 1,
                                       token |-> calls[c].token[1].token,
                                       expiry |-> calls[c].token[1].expiry]),
                      lastTokenRefresh |-> calls[c].now]
            /\ connects' = connects + 1
            /\ open' = open \cup {connects + 1}
            /\ lastBuild' = now
            /\ calls' = Suspended(c, afterHandle(calls[c].locate), None)
            /\ UNCHANGED consoleLog
       ELSE /\ Finish(c)
            /\ UNCHANGED <<wc, connects, open, lastBuild>>
  /\ UNCHANGED <<proc, search, variant, envOk, now, auth, issued, refreshed,
                 ret, backendVars, uploadVars>>

(* The geocoder answers or fails; either way the query follows. *)
GeocodeDone(c) ==
  /\ proc = "running"
  /\ calls[c].pc = "geocode"
  /\ calls' = Suspended(c, "query", None)
  /\ UNCHANGED <<consoleLog, proc, search, variant, envOk, now, auth, wc,
                 issued, connects, open, lastBuild, refreshed, ret,
                 backendVars, uploadVars>>

(* The query answers or fails, and the handler returns its response. *)
QueryDone(c) ==
  /\ proc = "running"
  /\ calls[c].pc = "query"
  /\ Finish(c)
  /\ UNCHANGED <<proc, search, variant, envOk, now, auth, wc, issued, connects,
                 open, lastBuild, refreshed, ret, backendVars, uploadVars>>

(* The clock is followed between invocations. *)
ServerTick ==
  /\ proc = "running"
  /\ \A c \in Calls : calls[c].pc = "idle"
  /\ Tick

(* Mutant: the hook exits without closing the handle. *)
Shutdown_ExitOnly ==
  /\ proc = "running"
  /\ proc' = "exited"
  /\ UNCHANGED <<calls, consoleLog, search, variant, envOk, now, auth, wc,
                 issued, connects, open, lastBuild, refreshed, ret,
                 backendVars, uploadVars>>

(* SIGINT or SIGTERM: the hook awaits closeWeaviateClient and calls
   process.exit(0); what the invocations in flight were doing is dropped. *)
Shutdown ==
  /\ proc = "running"
  /\ open' = closeWeaviateClient(wc, open)
  /\ proc' = "exited"
  /\ UNCHANGED <<calls, consoleLog, search, variant, envOk, now, auth, wc,
                 issued, connects, lastBuild, refreshed, ret, backendVars,
                 uploadVars>>

ServerNext ==
  \/ \E c \in Calls : Invoke(c)
  \/ \E c \in Calls : ExchangeDone(c)
  \/ \E c \in Calls : ConnectDone(c)
  \/ \E c \in Calls : GeocodeDone(c)
  \/ \E c \in Calls : QueryDone(c)
  \/ ServerTick
  \/ Shutdown

SpecServer == ServerInit /\ [][ServerNext]_vars

----------------------------------------------------------------------------
Unit(c) ==
  /\ c.success \in {0, 1} /\ c.failed \in {0, 1} /\ c.skipped \in {0, 1}
  /\ c.success + c.failed + c.skipped = 1

(* C1: for every run that returns a report, success + failed + skipped equals
   the number of records read, and every record is counted exactly once: the
   records were processed in order, each added one to exactly one counter,
   and the report's counters are the numbers of records so counted. *)
C1_ReportCountsEveryRecordOnce ==
  pc = "done" =>
    /\ report[1].success + report[1].failed + report[1].skipped
         = Len(run.imageFiles)
    /\ Len(run.imageFiles) > 0 =>
         /\ Len(log) = Len(run.imageFiles)
         /\ \A j \in DOMAIN log :
              log[j].image = run.imageFiles[j] /\ Unit(log[j].counted)
         /\ report[1].success
              = Cardinality({j \in DOMAIN log : log[j].counted.success = 1})
         /\ report[1].failed
              = Cardinality({j \in DOMAIN log : log[j].counted.failed = 1})
         /\ report[1].skipped
              = Cardinality({j \in DOMAIN log : log[j].counted.skipped = 1})

(* C1 witness: a run of two batches of one record each has returned, one
   record skipped and the other failed. *)
C1_Witness ==
  /\ pc = "done"
  /\ Len(run.imageFiles) = 2 /\ run.batchSize = 1
  /\ report[1].skipped = 1 /\ report[1].failed = 1

(* C2: if a first run inserted every record successfully, a second run over
   the same records with skipExisting=true, in which no backend call raises,
   reports success=0, failed=0 and skipped=|records| and issues no insert. *)
C2_SecondRunSkipsEveryRecord ==
  (/\ pc = "done"
   /\ prev /= None
   /\ prev[1].report /= None
   /\ prev[1].imageFiles = run.imageFiles
   /\ Len(run.imageFiles) > 0
   /\ prev[1].report[1].success = Len(run.imageFiles)
   /\ run.skipExisting
   /\ \A j \in DOMAIN log : log[j].raised = None)
  => /\ report[1].success = 0
     /\ report[1].failed = 0
     /\ report[1].skipped = Len(run.imageFiles)
     /\ \A j \in DOMAIN log : ~log[j].inserted

(* C3: whenever getValidToken() returns a token, on the cached path or on the
   refresh path, the expiry of that token lies more than five minutes after
   the instant of return, for every expiry the auth exchange may report. *)
C3_ReturnedTokenKeepsMargin ==
  (ret.op = "getValidToken" /\ ret.ok) => auth.tokenExpiry > now + FIVE_MINUTES

(* C4: a getValidToken() call made while the held credential has more than
   five minutes of validity returns the token the last refresh returned,
   performs no auth exchange and leaves the credential and its expiry as
   they were. *)
C4_CachedTokenReturnedUnchanged ==
  [][(CallGetValidToken /\ Truthy(auth.credentials)
        /\ auth.tokenExpiry > now + FIVE_MINUTES)
     => /\ ret'.ok
        /\ ret'.token = auth.credentials
        /\ ret'.token = refreshed
        /\ ~ret'.exchanged
        /\ issued' = issued
        /\ auth' = auth]_vars

(* C4 witness: time has passed since the refresh and a call has returned the
   held token without an exchange. *)
C4_Witness ==
  /\ ret.op = "getValidToken" /\ ret.ok /\ ~ret.exchanged
  /\ Truthy(auth.credentials) /\ auth.tokenExpiry > now + FIVE_MINUTES
  /\ ret.token = refreshed
  /\ now > 0

(* C5: getClient() builds a new connection handle on a call if and only if
   no handle is cached or more than sixty minutes have elapsed since the last
   build; in every other case it returns the cached handle and builds
   nothing.  A call that raises is one whose build was due and failed. *)
C5_RebuildIffStale ==
  [][CallGetWeaviateClient
     => LET stale == wc.client = None
                     \/ now - lastBuild > TOKEN_REFRESH_INTERVAL
        IN /\ ret'.ok => (ret'.built <=> stale)
           /\ ret'.built <=> connects' = connects + 1
           /\ ret'.built => /\ ret'.client[1].id = connects'
                             /\ wc'.client = ret'.client
                             /\ lastBuild' = now
           /\ ~ret'.built => connects' = connects /\ wc' = wc
           /\ ~stale => ret'.ok /\ ret'.client = wc.client
           /\ ~ret'.ok => stale]_vars

(* C5 witness: more than sixty minutes after the first build a call has
   built the second handle. *)
C5_Witness ==
  /\ ret.op = "getWeaviateClient" /\ ret.ok /\ ret.built
  /\ connects = 2
  /\ now > TOKEN_REFRESH_INTERVAL

(* C6: every handle that getClient() returns carries a bearer token that
   has not expired at the instant of return. *)
C6_ReturnedHandleTokenNotExpired ==
  (ret.op = "getWeaviateClient" /\ ret.ok) => ret.client[1].expiry > now

(* C7: every item whose existence check or insert raises is counted in
   failed, never in success or skipped, with "<name><extension>: <reason>"
   appended to the report's errors, reason being the error's message or
   "Unknown error"; and the run goes on to process every later item. *)
C7_RaisingItemCountedFailed ==
  /\ \A j \in DOMAIN log :
       log[j].raised /= None =>
         /\ log[j].counted = [success |-> 0, failed |-> 1, skipped |-> 0]
         /\ log[j].appended
              = <<log[j].image.name \o log[j].image.extension \o ": "
                    \o ErrorText(log[j].raised[1])>>
  /\ (pc = "done" /\ Len(run.imageFiles) > 0)
       => Len(log) = Len(run.imageFiles)

(* C8: an item is counted as skipped, and no insert is issued for it, when
   skipExisting is true and the existence check finds an object; an item is
   counted as skipped only in that case; when skipExisting is false no
   existence check is issued and an insert is attempted. *)
C8_SkippedIffFoundUnderSkipExisting ==
  \A j \in DOMAIN log :
    /\ (run.skipExisting /\ log[j].found)
         => (log[j].counted.skipped = 1 /\ ~log[j].inserted)
    /\ log[j].counted.skipped = 1 => (run.skipExisting /\ log[j].found)
    /\ ~run.skipExisting => (~log[j].checked /\ log[j].inserted)

(* C9: a createImagesCollection call that obtained its handle while the
   collection already existed returns normally and issues no create,
   whatever the backend's listing call did. *)
C9_NeverRaisesWhenCollectionExists ==
  (ret.op = "createImagesCollection" /\ ret.existed /\ ret.clientOk)
  => (ret.ok /\ ~ret.created)

(* C10: a createImagesCollection call made with its handle while a
   collection of the fixed name is present issues no create call and leaves
   the set of collections and their schemas as they were. *)
C10_PresentCollectionLeftAlone ==
  [][(CallCreateImagesCollection /\ COLLECTION_NAME \in Names(collections)
        /\ ret'.clientOk)
     => (~ret'.created /\ collections' = collections)]_vars

(* C11: a refreshToken, getValidToken or getClient call whose auth exchange
   errored or yielded no usable token (absent or empty) raises: a call that
   performed an exchange and returned hands out a non-empty token. *)
C11_NoUsableTokenRaises ==
  (ret.op \in {"refreshToken", "getValidToken"} /\ ret.exchanged /\ ret.ok)
  => Truthy(ret.token)

(* C12: the object stored for a record has a coordinates field exactly when
   the record has coordinates, with the same latitude and longitude; every
   record the run counted as uploaded has such an object in the store, and
   no object the uploader stored has a coordinates field its record lacks. *)
C12_CoordinatesStoredIffPresent ==
  LET Matches(o, image) ==
        /\ o.title = image.name
        /\ "path" \notin DOMAIN o
        /\ ("coordinates" \in DOMAIN o) <=> ("coordinates" \in DOMAIN image)
        /\ "coordinates" \in DOMAIN image =>
             /\ o.coordinates.latitude = image.coordinates.latitude
             /\ o.coordinates.longitude = image.coordinates.longitude
  IN /\ \A j \in DOMAIN log :
          log[j].counted.success = 1
            => \E o \in BagToSet(store) : Matches(o, log[j].image)
     /\ \A o \in BagToSet(store) :
          "path" \notin DOMAIN o
            => \E image \in Images : Matches(o, image)

(* C12 witness: a run has stored a record with coordinates and a record
   without. *)
C12_Witness ==
  /\ pc = "done"
  /\ report[1].success = 2
  /\ \E o \in BagToSet(store) : "coordinates" \in DOMAIN o
  /\ \E o \in BagToSet(store) :
       "path" \notin DOMAIN o /\ "coordinates" \notin DOMAIN o

(* C13: when a location is supplied and the geocoder finds no match, or the
   geocoder call itself fails, the search does not raise because of it: a
   warning is logged, the similarity query is issued without a geographic
   filter, and what that query matches is returned; only a failure of the
   query itself fails the search. *)
C13_GeocodeMissSearchesUnfiltered ==
  (/\ search /= None
   /\ search[1].clientOk
   /\ search[1].input.location \notin {None, Some("")}
   /\ search[1].geo.kind /= "match")
  => /\ search[1].geocoded
     /\ Len(search[1].warnings) >= 1
     /\ search[1].warnings[Len(search[1].warnings)]
          = "Could not geocode location \"" \o search[1].input.location[1]
            \o "\", proceeding without location filter"
     /\ search[1].sent /= None
     /\ search[1].sent[1].options.filters = None
     /\ search[1].q.kind = "ok" =>
          /\ search[1].failure = None
          /\ ~search[1].response.isError
          /\ search[1].results
               = [j \in DOMAIN search[1].q.objects |->
                    toSearchResult(search[1].q.objects[j])]
     /\ search[1].failure /= None =>
          (search[1].q.kind = "throw" /\ search[1].failure = Some(search[1].q.error))

(* C13 witness: "Paris" was not found by the geocoder and the unfiltered
   query's two matches were returned. *)
C13_Witness ==
  /\ search /= None
  /\ search[1].input.location = Some("Paris")
  /\ search[1].geo.kind = "empty"
  /\ search[1].sent /= None
  /\ Len(search[1].results) = 2
  /\ ~search[1].response.isError

(* C14: the issued query carries a geo-filter if and only if a location was
   supplied and geocoding returned a coordinate pair; the filter is centred
   on exactly that pair and its distance is radiusKm * 1000 metres, so that
   radiusKm = 10 gives 10 000 m. *)
C14_GeoFilterIffGeocoded ==
  (search /= None /\ search[1].sent /= None)
  => LET in == search[1].input
         filters == search[1].sent[1].options.filters
         radiusKm == IF in.radiusKm = None THEN DEFAULT_SEARCH_RADIUS_KM
                     ELSE in.radiusKm[1]
     IN /\ filters /= None <=>
             (/\ in.location \notin {None, Some("")}
              /\ search[1].geocoded
              /\ search[1].geo.kind = "match")
        /\ filters /= None =>
             /\ filters[1].latitude = ParseFloat(search[1].geo.lat)
             /\ filters[1].longitude = ParseFloat(search[1].geo.lon)
             /\ filters[1].distance = radiusKm * 1000
             /\ in.radiusKm = Some(10) => filters[1].distance = 10000

(* C14 witness: "Paris" geocoded to (48, 2) with radiusKm = 10 and the query
   was issued with a filter of 10 000 m. *)
C14_Witness ==
  /\ search /= None
  /\ search[1].input.location = Some("Paris")
  /\ search[1].input.radiusKm = Some(10)
  /\ search[1].sent /= None
  /\ search[1].sent[1].options.filters
       = Some([latitude |-> 48, longitude |-> 2, distance |-> 10000])

(* C15 as stated: the handler never throws, and for every failure of the
   query path, a failed geocoder call included, its response has isError
   set and embeds the failure's message. *)
C15_EveryFailureFlagged ==
  (/\ search /= None
   /\ \/ ~search[1].clientOk
      \/ search[1].geocoded /\ search[1].geo.kind \in {"throw", "status"}
      \/ search[1].sent /= None /\ search[1].q.kind = "throw")
  => /\ ~search[1].response.thrown
     /\ search[1].response.isError

(* C15 amended: the handler never throws; its response has isError set
   exactly when searchImages raised (connection, auth or query failure), and
   then its text embeds the error's message, or "Unknown error" when the
   thrown value is no Error.  A failed geocoder call raises nothing. *)
C15_HandlerNeverThrows ==
  search /= None
  => /\ ~search[1].response.thrown
     /\ search[1].response.isError <=> search[1].failure /= None
     /\ ~search[1].clientOk => search[1].failure /= None
     /\ (search[1].sent /= None /\ search[1].q.kind = "throw")
          => search[1].failure = Some(search[1].q.error)
     /\ search[1].failure /= None =>
          search[1].response.text
            = "Error searching photo albums: "
              \o (IF search[1].failure[1].isError
                  THEN search[1].failure[1].message ELSE "Unknown error")
              \o ". Please check your Weaviate connection and try again."

(* C15 witness: the query raised an Error and the response carries its
   message under isError. *)
C15_Witness ==
  /\ search /= None
  /\ search[1].failure = Some(Error("query failed"))
  /\ search[1].response.isError
  /\ search[1].response.text
       = "Error searching photo albums: query failed. Please check your Weaviate connection and try again."

(* C16: when the query succeeds with zero results the handler returns the
   fixed no-photos-found text without isError; with n >= 1 results it
   returns one numbered entry per result, in the order the backend returned
   them, also without isError. *)
C16_ResultsListedInBackendOrder ==
  (search /= None /\ search[1].sent /= None /\ search[1].q.kind = "ok")
  => LET objects == search[1].q.objects
         response == search[1].response
     IN /\ ~response.isError
        /\ ~response.thrown
        /\ Len(objects) = 0 =>
             response.text
               = "No photos found matching \"sunset\". Try a different search term or check if photos have been uploaded to the collection."
        /\ Len(objects) >= 1 =>
             response.text
               = "Found " \o ToString(Len(objects))
                 \o " photo(s) matching \"sunset\":\n\n"
                 \o Join([j \in DOMAIN objects |->
                            formatResult(toSearchResult(objects[j]), j)],
                         "\n\n")

(* C16 witness: the backend returned b before a and the response lists two
   entries. *)
C16_Witness ==
  /\ search /= None
  /\ search[1].sent /= None
  /\ search[1].q.kind = "ok"
  /\ search[1].q.objects = <<ObjectB, ObjectA>>
  /\ ~search[1].response.isError

(* C17: closeClient() releases the cached handle when one exists, is a
   no-op that does not raise when no handle was ever built, and never builds
   a handle or triggers a token refresh. *)
C17_CloseReleasesAndBuildsNothing ==
  [][CallCloseWeaviateClient
     => /\ ret'.ok
        /\ wc.client /= None => open' = open \ {wc.client[1].id}
        /\ wc.client = None => open' = open
        /\ connects' = connects
        /\ issued' = issued
        /\ auth' = auth
        /\ refreshed' = refreshed
        /\ lastBuild' = lastBuild]_vars

(* C17 witness: a handle was built and closeClient() has released it. *)
C17_Witness ==
  /\ ret.op = "closeWeaviateClient"
  /\ wc.client /= None
  /\ connects = 1
  /\ open = {}

(* C18: once collection setup has succeeded, and provided every backend call
   eventually returns or raises, the run terminates and returns a report,
   even when every item fails. *)
C18_IngestTerminatesWithReport ==
  (pc = "loop") ~> (pc = "done" /\ report /= None)

(* C18 witness: a run over two records has returned its report with both
   records failed. *)
C18_Witness ==
  /\ pc = "done"
  /\ Len(run.imageFiles) = 2
  /\ report /= None
  /\ report[1].failed = 2

(* C19: with skipExisting=false and every insert succeeding, a run over n
   records reports success=n, failed=0, skipped=0 and an empty list of
   failure messages, for every batchSize and with or without coordinates. *)
C19_CleanRunReportsAllSuccess ==
  (/\ pc = "done"
   /\ ~run.skipExisting
   /\ \A j \in DOMAIN log : log[j].raised = None)
  => report[1] = [success |-> Len(run.imageFiles), failed |-> 0,
                  skipped |-> 0, errors |-> <<>>]

(* C20: the upload command skips already-stored images only when
   --skip-existing is given: a run started without the flag has skipExisting
   false and issues no existence check. *)
C20_NoFlagNoExistenceCheck ==
  (pc \in {"loop", "batch", "done"} /\ run.entry = "upload" /\ ~run.flag)
  => /\ ~run.skipExisting
     /\ \A j \in DOMAIN log : ~log[j].checked

(* C27: at every moment at most one connection handle is built and not yet
   released. *)
C27_AtMostOneOpenHandle == Cardinality(open) <= 1

(* C28: a handle that getClient() returns has not been released. *)
C28_ReturnedHandleNotReleased ==
  (ret.op = "getWeaviateClient" /\ ret.ok) => ret.client[1].id \in open

(* C22: within one ingest run the items are processed in the order of
   imageFiles, batch after batch and in order inside a batch: what has been
   issued so far is exactly the operations of the first items, one item's
   operations being complete before the next item's are issued. *)
C22_ItemsProcessedInIndexOrder ==
  pc \in {"loop", "batch", "done"} =>
    /\ Len(log) <= Len(run.imageFiles)
    /\ \A n \in 1..Len(log) : log[n].image = run.imageFiles[n]
    /\ Len(log) = Min(i, Len(run.imageFiles)) + (IF pc = "batch" THEN k ELSE 0)

(* C22 witness: a run of two batches of one item each has returned. *)
C22_Witness ==
  /\ pc = "done"
  /\ run.batchSize = 1
  /\ run.imageFiles = <<ImageB, ImageA>>
  /\ Len(log) = 2
  /\ log[1].inserted /\ log[2].inserted

(* C23: a run enters its loop only with a handle built and the collection
   present; when building the handle or ensuring the collection fails, the
   run raises with no existence check or insert issued and no report, and
   after raising it builds nothing, exchanges nothing, creates nothing and
   issues nothing until the process ends. *)
C23_SetupFailureRaisesOnce ==
  [][/\ (pc = "idle" /\ pc' = "loop") =>
          /\ wc'.client /= None
          /\ COLLECTION_NAME \in Names(collections')
     /\ (pc = "idle" /\ pc' = "raised") =>
          /\ wc'.client = None \/ COLLECTION_NAME \notin Names(collections')
             \/ collections' = collections
          /\ log' = <<>>
          /\ report' = None
          /\ store' = store
          /\ connects' <= connects + 1
          /\ issued' <= issued + 1
     /\ pc = "raised" =>
          /\ pc' = "idle"
          /\ prev' = Some([imageFiles |-> run.imageFiles, report |-> None])
          /\ log = <<>>
          /\ UNCHANGED <<store, collections, connects, issued>>]_vars

(* C23 witness: a run over two records has raised after its handle was
   built, because the collection could not be created. *)
C23_Witness ==
  /\ pc = "raised"
  /\ Len(run.imageFiles) = 2
  /\ wc.client /= None
  /\ COLLECTION_NAME \notin Names(collections)

(* The messages of the items of a run counted as failed, in processing
   order, each "<name><extension>: <reason>". *)
FailedEntries(entries) == SelectSeq(entries, LAMBDA e : e.counted.failed = 1)
FailureMessages(entries) ==
  [n \in 1..Len(FailedEntries(entries)) |->
     FailedEntries(entries)[n].image.name
       \o FailedEntries(entries)[n].image.extension \o ": "
       \o ErrorText(FailedEntries(entries)[n].raised[1])]

(* C24: the failure-message list of a returned report is the list of the
   failed items' messages "<name><extension>: <reason>", in processing
   order. *)
C24_ErrorsAreFailedItemsInOrder ==
  (pc = "done" /\ report /= None) =>
     report[1].errors = FailureMessages(log)

(* C29: in every returned report the number of failure messages equals the
   failed count. *)
C29_MessagesMatchFailedCount ==
  report /= None => Len(report[1].errors) = report[1].failed

(* C26: every existence check and insert of a run is issued through the
   run's handle while the bearer token of that handle has not expired. *)
C26_OperationsUseUnexpiredToken ==
  [][(pc = "batch" /\ Len(log') = Len(log) + 1) =>
        wc.client[1].expiry > now]_vars

(* C21: when getClient() calls overlap, nothing is written to the cached
   handle between a call's staleness check and its update: a call that
   builds a handle stores it while the cache is still missing or expired, so
   one missing or expired handle leads to one build. *)
C21_OneBuildPerStaleHandle ==
  [][connects' > connects => handleStale(wc, now)]_vars

(* C30: while any search_photo_albums invocation is in flight in the stdio
   server, console.log writes to stderr. *)
C30_RedirectedWhileInFlight ==
  (proc = "running" /\ \E c \in Calls : calls[c].pc /= "idle")
     => consoleLog = "stderr"

(* C25: when the shutdown hook runs on SIGINT or SIGTERM, the cached handle,
   if any, is released by the time the process exits, whatever the
   invocations in flight are doing; the hook builds nothing and leaves what
   the backend holds as it is. *)
C25_ShutdownReleasesCachedHandle ==
  [][(proc = "running" /\ proc' = "exited") =>
        /\ wc.client /= None => wc.client[1].id \notin open'
        /\ wc' = wc
        /\ connects' = connects
        /\ store' = store
        /\ collections' = collections]_vars

(* C25 witness: the process has exited on a signal that arrived while an
   invocation was awaiting its query through the cached handle. *)
C25_Witness ==
  /\ proc = "exited"
  /\ wc.client /= None
  /\ lastBuild = now
  /\ \E c \in Calls : calls[c].pc = "query"

(* C31: a getClient() call that raises leaves the cached handle and the
   last-build instant as they were, builds and releases nothing, and leaves
   the cache missing or expired, so that the next call builds again; a
   refreshToken() call that raises leaves the held credential and its expiry
   as they were. *)
C31_FailedCallLeavesCacheUnchanged ==
  [][/\ (ret'.op = "getWeaviateClient" /\ ~ret'.ok) =>
          /\ wc' = wc
          /\ handleStale(wc', now')
          /\ UNCHANGED <<connects, open, lastBuild>>
     /\ (ret'.op = "refreshToken" /\ ~ret'.ok) => auth' = auth]_vars

(* C31 witness: a rebuild of an expired handle has failed at the connection,
   after an earlier refreshToken() call had left a credential behind. *)
C31_Witness ==
  /\ ret.op = "getWeaviateClient" /\ ~ret.ok /\ ret.exchanged = FALSE
  /\ wc.client /= None
  /\ now - wc.lastTokenRefresh > TOKEN_REFRESH_INTERVAL
  /\ auth.credentials /= None

====
